---- MODULE Spec2Model ----
(***************************************************************************)
(* Package sanitize of devify-utils (src/unnamed/part_005): the pure       *)
(* sanitizers String, Hostname, Extension, FileName, DirName, Path, Url    *)
(* and HasFileExtension, a caller that invokes them and feeds results      *)
(* back, and callers that invoke them at the same time; SanitizeFilename   *)
(* and CreateFileIfNotExist of package filesystem                          *)
(* (src/filesystem/filesystem.go) and UploadFiles and UploadOneFile of     *)
(* package upload (src/upload/upload_test.go).                             *)
(*                                                                         *)
(* A Go string is a sequence of bytes.  It is modelled as a sequence of    *)
(* byte tokens: an ASCII byte is the one-character string of that byte,    *)
(* "x00" and "x7F" are the control bytes NUL and DEL, "xC3" "xA9" are the  *)
(* two bytes of the UTF-8 encoding of the letter U+00E9, and "xC2" "xA0"   *)
(* those of the no-break space U+00A0.  len(s) is Len(s); s[:n] is         *)
(* SubSeq(s, 1, n).  One of these four bytes outside its pair is an        *)
(* invalid byte, which Go's regexp and range decode as U+FFFD (not a       *)
(* letter); "xEF" "xBF" "xBD" are the bytes of an encoded U+FFFD.          *)
(* The build is a Unix one: os.PathSeparator is "/" and filepath.ToSlash   *)
(* is the identity.                                                        *)
(***************************************************************************)
EXTENDS Integers, Sequences, FiniteSets, TLC

VARIABLES fn, arg, nav, out, again, prev, proto, callers,
          disk, up, fs, creators

seqVars == <<fn, arg, nav, out, again, prev, proto>>

fileVars == <<disk, up, fs, creators>>

vars == <<fn, arg, nav, out, again, prev, proto, callers,
          disk, up, fs, creators>>

----------------------------------------------------------------------------
(* Bytes and character classes (unicode.IsLetter, \p{L}, \p{N}, \s).        *)

UpperLetters ==
    <<"A","B","C","D","E","F","G","H","I","J","K","L","M",
      "N","O","P","Q","R","S","T","U","V","W","X","Y","Z">>

LowerLetters ==
    <<"a","b","c","d","e","f","g","h","i","j","k","l","m",
      "n","o","p","q","r","s","t","u","v","w","x","y","z">>

AsciiUpper == {UpperLetters[i] : i \in 1..26}

AsciiLower == {LowerLetters[i] : i \in 1..26}

AsciiDigit == {"0","1","2","3","4","5","6","7","8","9"}

\* unicode.IsSpace on the bytes of the model.
WhiteSpace == {" ", "\t", "\n", "\r"}

\* The bytes r < 32 || r == 127 of the model.
ControlBytes == {"x00", "\t", "\n", "\r", "x7F"}

\* The byte at i is the first byte of a well-formed U+00E9.
IsLead(s, i) == s[i] = "xC3" /\ i < Len(s) /\ s[i+1] = "xA9"

\* The byte at i is the second byte of a well-formed U+00E9.
IsTrail(s, i) == s[i] = "xA9" /\ i > 1 /\ s[i-1] = "xC3"

\* The byte at i is the first / second byte of a well-formed U+00A0.
IsNbspLead(s, i) == s[i] = "xC2" /\ i < Len(s) /\ s[i+1] = "xA0"

IsNbspTrail(s, i) == s[i] = "xA0" /\ i > 1 /\ s[i-1] = "xC2"

\* The byte at i belongs to a rune of unicode.IsSpace.
IsSpaceAt(s, i) ==
    s[i] \in WhiteSpace \/ IsNbspLead(s, i) \/ IsNbspTrail(s, i)

\* The byte at i is an invalid byte: range and regexp decode it as U+FFFD.
IsInvalidAt(s, i) ==
    /\ s[i] \in {"xC3", "xA9", "xC2", "xA0"}
    /\ ~(IsLead(s, i) \/ IsTrail(s, i) \/ IsNbspLead(s, i) \/ IsNbspTrail(s, i))

\* The byte at i belongs to a rune of \p{L}.
IsLetterAt(s, i) ==
    s[i] \in AsciiUpper \/ s[i] \in AsciiLower \/ IsLead(s, i) \/ IsTrail(s, i)

\* The byte at i belongs to a rune of \p{N}.
IsNumberAt(s, i) == s[i] \in AsciiDigit

\* unicode.ToLower / unicode.ToUpper on one byte (ASCII letters change).
ToLowerByte(b) ==
    IF b \in AsciiUpper
    THEN LowerLetters[CHOOSE i \in 1..26 : UpperLetters[i] = b]
    ELSE b

ToUpperByte(b) ==
    IF b \in AsciiLower
    THEN UpperLetters[CHOOSE i \in 1..26 : LowerLetters[i] = b]
    ELSE b

----------------------------------------------------------------------------
(* Package strings and path/filepath, on byte sequences.  None recurses     *)
(* over the bytes of a string.                                              *)

Indices(s) == [i \in 1..Len(s) |-> i]

Range(s) == {s[i] : i \in 1..Len(s)}

\* The bytes of s at the indices at, in that order: what is left of s when
\* a regexp replaces every byte at another index by "".
Pick(s, at) == [k \in 1..Len(at) |-> s[at[k]]] \o <<>>

\* strings.Trim(s, cutset): s without its leading and trailing bytes of cutset.
Trim(s, cutset) ==
    LET t == SelectSeq(Indices(s), LAMBDA i : s[i] \notin cutset)
    IN  IF Len(t) = 0 THEN <<>> ELSE SubSeq(s, t[1], t[Len(t)])

\* strings.TrimLeft(s, cutset).
TrimLeft(s, cutset) ==
    LET t == SelectSeq(Indices(s), LAMBDA i : s[i] \notin cutset)
    IN  IF Len(t) = 0 THEN <<>> ELSE SubSeq(s, t[1], Len(s))

\* s from the first to the last of the indices kept ("" if none is kept).
Between(s, kept) ==
    IF Len(kept) = 0 THEN <<>> ELSE SubSeq(s, kept[1], kept[Len(kept)])

\* strings.TrimSpace(s): s without its leading and trailing white space,
\* as Unicode defines it.
TrimSpace(s) ==
    Between(s, SelectSeq(Indices(s), LAMBDA i : ~IsSpaceAt(s, i)))

\* strings.HasPrefix(s, p).
HasPrefix(s, p) == Len(s) >= Len(p) /\ SubSeq(s, 1, Len(p)) = p

\* strings.HasSuffix(s, p).
HasSuffix(s, p) == Len(s) >= Len(p) /\ SubSeq(s, Len(s) - Len(p) + 1, Len(s)) = p

\* strings.TrimSuffix(s, p).
TrimSuffix(s, p) == IF HasSuffix(s, p) THEN SubSeq(s, 1, Len(s) - Len(p)) ELSE s

\* strings.ToLower(s).  (An invalid byte becomes U+FFFD, which every caller
\* strips in its next step exactly as it strips the invalid byte itself.)
ToLower(s) == [i \in 1..Len(s) |-> ToLowerByte(s[i])] \o <<>>

\* strings.EqualFold(s, t), on ASCII.
EqualFold(s, t) ==
    /\ Len(s) = Len(t)
    /\ \A i \in 1..Len(s) : ToUpperByte(s[i]) = ToUpperByte(t[i])

\* strings.Split(s, sep) for a one-byte separator: the pieces between the
\* occurrences of sep (always at least one piece).
Split(s, sep) ==
    LET at == SelectSeq(Indices(s), LAMBDA i : s[i] = sep)
        n  == Len(at)
        lo(k) == IF k = 1 THEN 1 ELSE at[k-1] + 1
        hi(k) == IF k = n + 1 THEN Len(s) ELSE at[k] - 1
    IN  [k \in 1..(n+1) |-> SubSeq(s, lo(k), hi(k))] \o <<>>

\* filepath.Ext(path): the suffix beginning at the final dot of the final
\* element of path, "" if there is no dot.
Ext(path) ==
    LET t == SelectSeq(Indices(path), LAMBDA i : path[i] \in {".", "/"})
    IN  IF Len(t) = 0 \/ path[t[Len(t)]] = "/" THEN <<>>
        ELSE SubSeq(path, t[Len(t)], Len(path))

\* regexp `_+` ReplaceAllString(s, "_"): every run of underscores becomes one.
CollapseUnderscores(s) ==
    Pick(s, SelectSeq(Indices(s),
                      LAMBDA i : ~(s[i] = "_" /\ i > 1 /\ s[i-1] = "_")))

\* regexp `[^\p{L}\p{N}_-]` ReplaceAllString(s, ""), then the strings.Map
\* that drops r < 32 || r == 127.
StripUnsafe(s) ==
    LET kept == Pick(s, SelectSeq(Indices(s),
                         LAMBDA i : IsLetterAt(s, i) \/ IsNumberAt(s, i)
                                    \/ s[i] \in {"_", "-"}))
    IN  SelectSeq(kept, LAMBDA b : b \notin ControlBytes)

----------------------------------------------------------------------------
(* Results: (value, nil), ("", error) or a run-time panic.                  *)

Ok(v)  == [st |-> "ok", val |-> v, err |-> ""]

Err(e) == [st |-> "err", val |-> <<>>, err |-> e]

Panic  == [st |-> "panic", val |-> <<>>, err |-> "slice bounds out of range"]

\* The result of a predicate.
Bool(b) == [st |-> IF b THEN "true" ELSE "false", val |-> <<>>, err |-> ""]

NoResult == [st |-> "none", val |-> <<>>, err |-> ""]

----------------------------------------------------------------------------
(* Program constants.                                                       *)

\* The length cap of FileName and DirName.
MaxNameLen == 255

\* The length cap of Path.
MaxPathLen == 4096

\* The length cap of filesystem.SanitizeFilename.
FsMaxNameLen == 255

\* The length cap of the paths of package filesystem.
FsMaxPathLen == 4096

\* reservedNames of FileName.
ReservedNames ==
    << <<"C","O","N">>, <<"P","R","N">>, <<"A","U","X">>, <<"N","U","L">>,
       <<"C","O","M","1">>, <<"C","O","M","2">>, <<"C","O","M","3">>,
       <<"C","O","M","4">>, <<"C","O","M","5">>, <<"C","O","M","6">>,
       <<"C","O","M","7">>, <<"C","O","M","8">>, <<"C","O","M","9">>,
       <<"L","P","T","1">>, <<"L","P","T","2">>, <<"L","P","T","3">>,
       <<"L","P","T","4">>, <<"L","P","T","5">>, <<"L","P","T","6">>,
       <<"L","P","T","7">>, <<"L","P","T","8">>, <<"L","P","T","9">> >>

\* A reserved-name test that compares the letters as they are.
IsReservedExact(base) ==
    \E k \in 1..Len(ReservedNames) : base = ReservedNames[k]

\* slices.ContainsFunc(reservedNames, EqualFold(base, .)).
IsReserved(base) ==
    \E k \in 1..Len(ReservedNames) : EqualFold(base, ReservedNames[k])

----------------------------------------------------------------------------
(* The sanitizers.                                                          *)

\* The sequences of a sequence of sequences, concatenated.
RECURSIVE Concat(_)
Concat(seqs) ==
    IF Len(seqs) = 0 THEN <<>> ELSE Head(seqs) \o Concat(Tail(seqs))

\* The loop "for _, r := range input { if !unicode.IsControl(r)
\* { builder.WriteRune(r) } }" of String and Url: control characters are
\* left out, and an invalid byte is written as an encoded U+FFFD.
WriteNonControl(input) ==
    Concat([i \in 1..Len(input) |->
              IF input[i] \in ControlBytes THEN <<>>
              ELSE IF IsInvalidAt(input, i) THEN <<"xEF", "xBF", "xBD">>
              ELSE <<input[i]>>] \o <<>>)

\* The characters of the regexp `[<>{}|\\^~]`.
UnsafeBytes == {"<", ">", "{", "}", "|", "\\", "^", "~"}

\* unsafe.ReplaceAllString(result, " ").
ReplaceUnsafe(s) ==
    [i \in 1..Len(s) |-> IF s[i] \in UnsafeBytes THEN " " ELSE s[i]] \o <<>>

\* The bytes of the regexp class \s, which is [\t\n\f\r ] in Go.
RegexpSpace == {" ", "\t", "\n", "\r"}

\* regexp `\s+` ReplaceAllString(s, " "): every run of \s becomes one space.
CollapseSpaces(s) ==
    LET first == SelectSeq(Indices(s),
                   LAMBDA i : s[i] \notin RegexpSpace
                              \/ i = 1 \/ s[i-1] \notin RegexpSpace)
    IN  [k \in 1..Len(first) |->
           IF s[first[k]] \in RegexpSpace THEN " " ELSE s[first[k]]] \o <<>>

\* StringRest with the trimming done before the unsafe characters are
\* replaced.
StringTrimFirst(built) ==
    LET result == CollapseSpaces(ReplaceUnsafe(TrimSpace(built)))
    IN  IF result = <<>> THEN Err("sanitized string is empty") ELSE Ok(result)

\* String from "result := builder.String()" on: built is what the loop
\* wrote to the builder.
StringRest(built) ==
    LET result == CollapseSpaces(TrimSpace(ReplaceUnsafe(built)))
    IN  IF result = <<>> THEN Err("sanitized string is empty") ELSE Ok(result)

\* String(input).
String(input) == StringRest(WriteNonControl(input))

\* A hostname pattern that lets the letters of every script through.
MatchesHostnameUnicode(s) ==
    /\ Len(s) > 0
    /\ \A i \in 1..Len(s) :
         \/ s[i] \in AsciiDigit \cup {".", "-"}
         \/ IsLetterAt(s, i)

\* hostnameRegex `^[a-zA-Z0-9.-]+$` MatchString.
MatchesHostname(s) ==
    /\ Len(s) > 0
    /\ \A i \in 1..Len(s) :
         s[i] \in AsciiUpper \cup AsciiLower \cup AsciiDigit \cup {".", "-"}

\* Hostname after its call of String, which returned r.
HostnameRest(r) ==
    IF r.st = "err" THEN r
    ELSE IF ~MatchesHostname(r.val)
    THEN Err("invalid hostname or IP format")
    ELSE r

\* Hostname(input).
Hostname(input) == HostnameRest(String(input))

HttpPrefix == <<"h","t","t","p",":","/","/">>

HttpsPrefix == <<"h","t","t","p","s",":","/","/">>

\* `[a-zA-Z0-9.-]+(\.[a-zA-Z0-9.-]+)*(/[\p{L}\p{N}_./-]*)?$` matches all of
\* s: a non-empty host of ASCII letters, digits, dots and hyphens, then
\* nothing or a "/" followed by letters, numbers and "_", ".", "/", "-".
MatchesHostAndPath(s) ==
    LET sl   == SelectSeq(Indices(s), LAMBDA i : s[i] = "/")
        hEnd == IF Len(sl) = 0 THEN Len(s) ELSE sl[1] - 1
    IN  /\ hEnd >= 1
        /\ \A i \in 1..hEnd :
             s[i] \in AsciiUpper \cup AsciiLower \cup AsciiDigit \cup {".", "-"}
        /\ \A i \in (hEnd + 2)..Len(s) :
             IsLetterAt(s, i) \/ IsNumberAt(s, i) \/ s[i] \in {"_", ".", "/", "-"}

\* A pattern that takes the protocol in any letter case.
MatchesUrlAnyCase(s) ==
    \/ MatchesHostAndPath(s)
    \/ HasPrefix(ToLower(s), HttpPrefix)
         /\ MatchesHostAndPath(SubSeq(s, Len(HttpPrefix) + 1, Len(s)))
    \/ HasPrefix(ToLower(s), HttpsPrefix)
         /\ MatchesHostAndPath(SubSeq(s, Len(HttpsPrefix) + 1, Len(s)))

\* urlRegex `^(https?://)?...$` MatchString: the protocol is optional.
MatchesUrl(s) ==
    \/ MatchesHostAndPath(s)
    \/ HasPrefix(s, HttpPrefix)
         /\ MatchesHostAndPath(SubSeq(s, Len(HttpPrefix) + 1, Len(s)))
    \/ HasPrefix(s, HttpsPrefix)
         /\ MatchesHostAndPath(SubSeq(s, Len(HttpsPrefix) + 1, Len(s)))

\* UrlRest with a protocol required only when the caller asks for it.
UrlRestOptionalProtocol(built, requireProtocol) ==
    LET reqProto == Len(requireProtocol) > 0 /\ requireProtocol[1]
        result   == TrimSpace(built)
    IN  IF result = <<>> THEN Err("sanitized url is empty")
        ELSE IF ~MatchesUrl(result) THEN Err("invalid url format")
        ELSE IF /\ reqProto
                /\ ~HasPrefix(ToLower(result), HttpPrefix)
                /\ ~HasPrefix(ToLower(result), HttpsPrefix)
        THEN Err("url must have protocol")
        ELSE Ok(result)

\* Url from "result := strings.TrimSpace(builder.String())" on.
UrlRest(built, requireProtocol) ==
    LET reqProto == IF Len(requireProtocol) > 0 THEN requireProtocol[1] ELSE TRUE
        result   == TrimSpace(built)
    IN  IF result = <<>> THEN Err("sanitized url is empty")
        ELSE IF ~MatchesUrl(result) THEN Err("invalid url format")
        ELSE IF reqProto /\ ~HasPrefix(ToLower(result), HttpPrefix)
                         /\ ~HasPrefix(ToLower(result), HttpsPrefix)
        THEN Err("url must have protocol")
        ELSE Ok(result)

\* Url(input, requireProtocol...): requireProtocol is the list of the
\* optional arguments.
Url(input, requireProtocol) == UrlRest(WriteNonControl(input), requireProtocol)

\* The pattern of the documented copy of the package (part_006), which
\* takes a query after the path:
\* `[a-zA-Z0-9.-]+(\.[a-zA-Z0-9.-]+)*(/[\p{L}\p{N}_./-]*(\?[\p{L}\p{N}_./&=?-]*)?)?$`.
MatchesHostPathAndQuery(s) ==
    LET sl   == SelectSeq(Indices(s), LAMBDA i : s[i] = "/")
        hEnd == IF Len(sl) = 0 THEN Len(s) ELSE sl[1] - 1
        qm   == SelectSeq(Indices(s), LAMBDA i : s[i] = "?")
        pEnd == IF Len(qm) = 0 THEN Len(s) ELSE qm[1] - 1
    IN  /\ hEnd >= 1
        /\ \A i \in 1..hEnd :
             s[i] \in AsciiUpper \cup AsciiLower \cup AsciiDigit \cup {".", "-"}
        /\ \A i \in (hEnd + 2)..pEnd :
             IsLetterAt(s, i) \/ IsNumberAt(s, i) \/ s[i] \in {"_", ".", "/", "-"}
        /\ \A i \in (pEnd + 2)..Len(s) :
             \/ IsLetterAt(s, i) \/ IsNumberAt(s, i)
             \/ s[i] \in {"_", ".", "/", "&", "=", "?", "-"}

MatchesUrlWithQuery(s) ==
    \/ MatchesHostPathAndQuery(s)
    \/ HasPrefix(s, HttpPrefix)
         /\ MatchesHostPathAndQuery(SubSeq(s, Len(HttpPrefix) + 1, Len(s)))
    \/ HasPrefix(s, HttpsPrefix)
         /\ MatchesHostPathAndQuery(SubSeq(s, Len(HttpsPrefix) + 1, Len(s)))

\* Url of the documented copy of the package: Url with that pattern.
UrlWithQuery(input, requireProtocol) ==
    LET reqProto == IF Len(requireProtocol) > 0 THEN requireProtocol[1] ELSE TRUE
        result   == TrimSpace(WriteNonControl(input))
    IN  IF result = <<>> THEN Err("sanitized url is empty")
        ELSE IF ~MatchesUrlWithQuery(result) THEN Err("invalid url format")
        ELSE IF reqProto /\ ~HasPrefix(ToLower(result), HttpPrefix)
                         /\ ~HasPrefix(ToLower(result), HttpsPrefix)
        THEN Err("url must have protocol")
        ELSE Ok(result)

\* Extension(ext): lower-case, trim, strip all but letters, numbers and
\* dots, force a leading dot, keep only the last dot segment.
ExtensionFirstSegment(ext) ==
    LET lowered  == ToLower(TrimSpace(ext))
        stripped == Pick(lowered, SelectSeq(Indices(lowered),
                        LAMBDA i : IsLetterAt(lowered, i)
                                   \/ IsNumberAt(lowered, i)
                                   \/ lowered[i] = "."))
        dotted   == IF HasPrefix(stripped, <<".">>) THEN stripped
                    ELSE <<".">> \o stripped
        parts    == Split(dotted, ".")
        last     == IF Len(parts) > 2 THEN <<".">> \o parts[2]
                    ELSE dotted
    IN  IF last = <<".">> \/ last = <<>>
        THEN Err("sanitized extension is empty or invalid")
        ELSE Ok(last)

\* Extension(ext).
Extension(ext) ==
    LET lowered  == ToLower(TrimSpace(ext))
        stripped == Pick(lowered, SelectSeq(Indices(lowered),
                        LAMBDA i : IsLetterAt(lowered, i)
                                   \/ IsNumberAt(lowered, i)
                                   \/ lowered[i] = "."))
        dotted   == IF HasPrefix(stripped, <<".">>) THEN stripped
                    ELSE <<".">> \o stripped
        parts    == Split(dotted, ".")
        last     == IF Len(parts) > 2 THEN <<".">> \o parts[Len(parts)]
                    ELSE dotted
    IN  IF last = <<".">> \/ last = <<>>
        THEN Err("sanitized extension is empty or invalid")
        ELSE Ok(last)

\* FileName, from "Combine base and extension" on: the concatenation, the
\* cut to 255 bytes that keeps the extension, and the final check.  The
\* slice filename[:255-len(sanitizedExt)] panics on a negative bound.
FileNameJoin(base, sanitizedExt) ==
    LET filename == base \o sanitizedExt
        cut      == MaxNameLen - Len(sanitizedExt)
    IN  IF Len(filename) > MaxNameLen
        THEN IF cut < 0 THEN Panic
             ELSE Ok(SubSeq(filename, 1, cut) \o sanitizedExt)
        ELSE IF filename = <<>> \/ filename = <<".">>
             THEN Err("sanitized filename is empty or invalid")
             ELSE Ok(filename)

\* FileName(filename).
FileName(filename) ==
    IF filename = <<".">> THEN Err("sanitized filename is empty or invalid")
    ELSE
    LET ext  == Ext(filename)
        base == TrimSpace(TrimSuffix(filename, ext))
    IN  IF base = <<>> THEN Err("filename base is empty")
        ELSE IF IsReserved(base) THEN Err("filename is a reserved name")
        ELSE
        LET clean == Trim(CollapseUnderscores(StripUnsafe(base)), {"_"})
        IN  IF clean = <<>> THEN Err("sanitized filename base is empty")
            ELSE
            LET e == IF ext # <<>> THEN Extension(ext) ELSE Ok(<<>>)
            IN  IF e.st = "err" THEN e ELSE FileNameJoin(clean, e.val)

\* DirName(dirname).
DirName(dirname) ==
    LET trimmed == Trim(TrimSpace(dirname), {"/", "\\"})
    IN  IF trimmed = <<>> THEN Err("directory name is empty")
        ELSE
        LET undotted == IF HasPrefix(trimmed, <<".">>)
                        THEN <<"d","i","r","_">> \o TrimLeft(trimmed, {"."})
                        ELSE trimmed
            clean    == Trim(CollapseUnderscores(StripUnsafe(undotted)), {"_"})
        IN  IF clean = <<>> THEN Err("sanitized directory name is empty")
            ELSE IF Len(clean) > MaxNameLen
                 THEN Ok(SubSeq(clean, 1, MaxNameLen))
                 ELSE Ok(clean)

\* A test that takes a name that is all extension for a name with one.
HasAnyExtension(comp) ==
    LET ext == Ext(comp) IN ext # <<>>

\* HasFileExtension(comp).
HasFileExtension(comp) ==
    LET ext == Ext(comp) IN ext # <<>> /\ ext # comp

----------------------------------------------------------------------------
(* path/filepath on a Unix build.                                           *)

\* os.PathSeparator.
PathSeparator == <<"/">>

\* filepath.ToSlash(path): the identity where the separator is "/".
ToSlash(path) == path

\* The elements joined by "/".
RECURSIVE JoinSep(_)
JoinSep(elems) ==
    IF Len(elems) = 0 THEN <<>>
    ELSE IF Len(elems) = 1 THEN elems[1]
    ELSE elems[1] \o PathSeparator \o JoinSep(Tail(elems))

\* The loop of filepath.Clean over the elements of a path: "" and "." are
\* skipped, ".." removes the element before it if there is one that is not
\* itself a kept "..", is dropped at the root, and is kept otherwise.
RECURSIVE CleanElems(_, _, _)
CleanElems(elems, rooted, acc) ==
    IF Len(elems) = 0 THEN acc
    ELSE
    LET e    == Head(elems)
        rest == Tail(elems)
    IN  IF e = <<>> \/ e = <<".">> THEN CleanElems(rest, rooted, acc)
        ELSE IF e = <<".", ".">>
        THEN IF Len(acc) > 0 /\ acc[Len(acc)] # <<".", ".">>
             THEN CleanElems(rest, rooted, SubSeq(acc, 1, Len(acc) - 1))
             ELSE IF rooted THEN CleanElems(rest, rooted, acc)
             ELSE CleanElems(rest, rooted, Append(acc, e))
        ELSE CleanElems(rest, rooted, Append(acc, e))

\* filepath.Clean(path).
Clean(path) ==
    IF path = <<>> THEN <<".">>
    ELSE
    LET rooted == path[1] = "/"
        body   == JoinSep(CleanElems(Split(path, "/"), rooted, <<>>))
    IN  IF rooted THEN PathSeparator \o body
        ELSE IF body = <<>> THEN <<".">> ELSE body

\* filepath.Join(elems...): the non-empty elements joined and cleaned, ""
\* when there is none.
Join(elems) ==
    LET nonEmpty == SelectSeq(elems, LAMBDA e : e # <<>>)
    IN  IF Len(nonEmpty) = 0 THEN <<>> ELSE Clean(JoinSep(nonEmpty))

\* filepath.Base(path): the last element of path, trailing separators
\* removed first; "." for "", "/" for a path of separators only.
Base(path) ==
    IF path = <<>> THEN <<".">>
    ELSE
    LET t == SelectSeq(Indices(path), LAMBDA i : path[i] # "/")
    IN  IF Len(t) = 0 THEN PathSeparator
        ELSE
        LET end == t[Len(t)]
            sl  == SelectSeq(Indices(path), LAMBDA i : path[i] = "/" /\ i < end)
            beg == IF Len(sl) = 0 THEN 1 ELSE sl[Len(sl)] + 1
        IN  SubSeq(path, beg, end)

----------------------------------------------------------------------------
(* Path.                                                                    *)

\* A loop body that gives every component with an extension to FileName,
\* wherever it stands in the path.
SanitizeComponentAnywhere(components, i) ==
    LET comp == components[i]
    IN  IF comp = <<>> THEN Err("")
        ELSE IF comp = <<".">> \/ comp = <<".", ".">> THEN Ok(comp)
        ELSE IF HasFileExtension(comp) THEN FileName(comp)
        ELSE DirName(comp)

\* The body of Path's loop for the component at index i: a navigation
\* component is kept, the last component with an extension goes through
\* FileName, every other one through DirName; an empty component is skipped
\* like a failed one.
SanitizeComponent(components, i) ==
    LET comp == components[i]
    IN  IF comp = <<>> THEN Err("")
        ELSE IF comp = <<".">> \/ comp = <<".", ".">> THEN Ok(comp)
        ELSE IF i = Len(components) /\ HasFileExtension(comp) THEN FileName(comp)
        ELSE DirName(comp)

\* The result of Path's loop for every component of the split path.
ComponentResults(slashedPath) ==
    LET components == Split(slashedPath, "/")
    IN  [i \in 1..Len(components) |-> SanitizeComponent(components, i)] \o <<>>

\* cleanComponents of a loop that stops at the first component that fails
\* to sanitize.
CleanComponentsUntilError(results) ==
    LET kept == SelectSeq(Indices(results), LAMBDA i :
                    /\ results[i].st = "ok"
                    /\ \A j \in 1..i : results[j].st = "ok" \/ results[j].err = "")
    IN  [k \in 1..Len(kept) |-> results[kept[k]].val] \o <<>>

\* cleanComponents: the values of the components that sanitized, in order.
CleanComponents(results) ==
    LET kept == SelectSeq(results, LAMBDA r : r.st = "ok")
    IN  [k \in 1..Len(kept) |-> kept[k].val] \o <<>>

\* finalPath before the reattachment: the kept components joined and
\* cleaned, "." made "", the root put back.
FinalPath(slashedPath, results) ==
    LET isAbs        == HasPrefix(slashedPath, <<"/">>)
        joined       == Clean(Join(CleanComponents(results)))
        relativePath == IF joined = <<".">> THEN <<>> ELSE joined
    IN  IF isAbs THEN PathSeparator \o relativePath ELSE relativePath

\* Reattach without the test that finalPath already begins with the marker.
ReattachUnchecked(path, finalPath, allowNav) ==
    IF allowNav /\ HasPrefix(path, <<".", "/">>)
    THEN <<".">> \o PathSeparator \o finalPath
    ELSE IF allowNav /\ HasPrefix(path, <<".", ".", "/">>)
    THEN <<".", ".">> \o PathSeparator \o finalPath
    ELSE finalPath

\* "Reattach leading ./ or ../ if applicable": path is the raw argument.
Reattach(path, finalPath, allowNav) ==
    LET hasLeadingDotSlash    == HasPrefix(path, <<".", "/">>)
        hasLeadingParentSlash == HasPrefix(path, <<".", ".", "/">>)
        slashedFinal          == ToSlash(finalPath)
    IN  IF ~allowNav THEN finalPath
        ELSE IF hasLeadingDotSlash /\ ~HasPrefix(slashedFinal, <<".", "/">>)
        THEN <<".">> \o PathSeparator \o finalPath
        ELSE IF hasLeadingParentSlash /\ ~HasPrefix(slashedFinal, <<".", ".", "/">>)
        THEN <<".", ".">> \o PathSeparator \o finalPath
        ELSE finalPath

\* Finish that never adds the trailing separator.
FinishWithoutSeparator(finalPath) ==
    IF Len(finalPath) > MaxPathLen
    THEN Err("sanitized path exceeds maximum length")
    ELSE Ok(finalPath)

\* The end of Path: the length check, then the trailing separator of a
\* path whose base has no extension.
Finish(finalPath) ==
    IF Len(finalPath) > MaxPathLen
    THEN Err("sanitized path exceeds maximum length")
    ELSE IF ~HasFileExtension(Base(finalPath))
    THEN Ok(finalPath \o PathSeparator)
    ELSE Ok(finalPath)

\* Path(path, allowNav).  A panic of FileName on a component is a panic
\* of Path.
Path(path, allowNav) ==
    LET trimmed == TrimSpace(path)
    IN  IF trimmed = <<>> THEN Err("path is empty")
        ELSE
        LET slashedPath == ToSlash(trimmed)
            results     == ComponentResults(slashedPath)
            finalPath   == FinalPath(slashedPath, results)
        IN  IF \E r \in Range(results) : r.st = "panic" THEN Panic
            ELSE IF finalPath = <<>> \/ finalPath = <<".">>
                    \/ finalPath = PathSeparator
            THEN Err("sanitized path is empty")
            ELSE Finish(Reattach(path, finalPath, allowNav))

----------------------------------------------------------------------------
(* The inputs of the callers.                                               *)

\* Longest short name and longest short path that are tried exhaustively.
MaxNameChars == 4

MaxPathChars == 5

\* How far around the 255-byte cap the long names reach.
Slack == 3

\* All byte sequences over alphabet of length at most n.
StringsUpTo(alphabet, n) == UNION {[1..k -> alphabet] : k \in 0..n}

\* n copies of the byte b.
Rep(b, n) == [i \in 1..n |-> b] \o <<>>

NameAlphabet == {"C", "o", "N", "_", "<", ".", " "}

PathAlphabet == {"a", ".", "/", "<", " "}

ShortNames == StringsUpTo(NameAlphabet, MaxNameChars)

ShortPaths == StringsUpTo(PathAlphabet, MaxPathChars)

PadLens == (MaxNameLen - Slack)..(MaxNameLen + Slack)

\* What follows a long base, and what precedes a long extension.
NameTails ==
    { <<>>, <<"_", "b">>, <<"xC3", "xA9">>, <<"xC3", "xA9", "b">>,
      <<".", "t", "x", "t">> }

NameHeads == { <<"a">>, <<"C", "O", "N", "x">> }

LongNames ==
    {Rep("a", n) \o t : n \in PadLens, t \in NameTails}
    \cup {h \o <<".">> \o Rep("b", n) : h \in NameHeads, n \in PadLens}

\* The names of the package's tests and documentation.
ExampleNames ==
    { <<"f","i","l","e",".","t","x","t">>,
      <<"f","i","l","e","<",">",".","t","x","t">>,
      <<"f","i","l","e","x00",".","t","x","t">>,
      <<"f","i","l","e","_","_","n","a","m","e",".","t","x","t">>,
      <<"f","i","l","e">>,
      <<"C","O","N",".","t","x","t">>,
      <<"c","o","n",".","t","x","t">>,
      <<"C","<","O","N",".","t","x","t">>,
      <<"N","U","L">>,
      <<"xC3","xA9",".","xC3","xA9">>,
      <<"d","i","r">>, <<"s","u","b","-","d","i","r">>, <<".","d","i","r">>,
      <<"d","i","r","<",">">>, <<"/","d","i","r","/">>,
      <<"d","i","r","_","_","n","a","m","e">>, <<"d","i","r","x00">>,
      <<"m","y","/","d","i","r","<","t","e","s","t",">">>,
      <<"L","P","T","1">>, <<"c","o","m","9">> }

NameInputs == ShortNames \cup LongNames \cup ExampleNames

\* How many 255-byte components and separators fill a 4096-byte path.
FullComps == MaxPathLen \div (MaxNameLen + 1)

\* n components of 255 bytes, each followed by a separator.
RepComp(n) ==
    [i \in 1..(n * (MaxNameLen + 1)) |->
        IF i % (MaxNameLen + 1) = 0 THEN "/" ELSE "a"] \o <<>>

LongPaths ==
    { lead \o RepComp(n) \o Rep("a", len) \o tail :
        lead \in {<<>>, <<"/">>, <<".", "/">>},
        n    \in {FullComps - 1, FullComps},
        len  \in (MaxNameLen - 2 - Slack)..MaxNameLen,
        tail \in {<<>>, <<".", "c">>} }

\* The paths of the package's tests and documentation.
ExamplePaths ==
    { <<"p","a","t","h","/","t","o","/","d","i","r">>,
      <<"p","a","t","h","/","t","o","/","f","i","l","e",".","t","x","t">>,
      <<".","/","p","a","t","h","/",".",".","/","t","o","/","f","i","l","e",".","t","x","t">>,
      <<"/","a","b","s","/","p","a","t","h","/","t","o","/","d","i","r">>,
      <<"/","a","b","s","/","t","o","/","f","i","l","e",".","t","x","t">>,
      <<"/","a","b","s","/",".","/","p","a","t","h","/",".",".","/","t","o","/","d","i","r">>,
      <<"p","a","t","h","/","<",">","/","f","i","l","e",".","t","x","t">>,
      <<".","/","d","i","r">>, <<".",".","/","d","i","r">>,
      <<"/","p","a","t","h","/","<",">","/","d","i","r">>,
      <<"/","p","a","t","h","/","/","d","i","r">>,
      <<"d","i","r","/",".",".","/","f","i","l","e",".","t","x","t">>,
      <<"a","/","C","<","O","N",".","t","x","t">>,
      <<"a","/","C","O","N",".","t","x","t">>,
      <<"a",".","t","x","t","/","b">>,
      <<"/",".",".","/","e","t","c">>,
      <<"a","/","b",".">> \o Rep("c", MaxNameLen + 1) }

PathInputs == ShortPaths \cup LongPaths \cup ExamplePaths

\* Longest text, in characters, that is tried exhaustively, and longest
\* host of the tried URLs.
MaxTextChars == 4

MaxHostChars == 2

\* The two-byte characters of the inputs: the letter U+00E9 and the
\* no-break space U+00A0.
LetterE == <<"xC3", "xA9">>

Nbsp == <<"xC2", "xA0">>

\* The bytes of a sequence of characters.
RECURSIVE Flatten(_)
Flatten(runes) ==
    IF Len(runes) = 0 THEN <<>> ELSE Head(runes) \o Flatten(Tail(runes))

\* The texts of at most n characters drawn from runes.
TextsUpTo(runes, n) == {Flatten(t) : t \in StringsUpTo(runes, n)}

StringRunes == { <<"a">>, <<" ">>, <<"<">>, <<"x00">>, Nbsp, LetterE }

HostRunes == { <<"a">>, <<"1">>, <<".">>, <<"-">>, <<" ">>, LetterE }

ExtRunes == { <<"a">>, <<"B">>, <<"1">>, <<".">>, <<"<">>, LetterE }

\* The strings of TestString and of the documentation, and bytes that are
\* not valid UTF-8.
ExampleStrings ==
    { <<"h","e","l","l","o"," ","w","o","r","l","d">>,
      <<"h","e","l","l","o","<","w","o","r","l","d",">">>,
      <<"h","e","l","l","o","x00","w","o","r","l","d">>,
      <<"h","e","l","l","o"," "," "," ","w","o","r","l","d"," ">>,
      <<"h","xC3","xA9","l","l","o"," ","w","o","r","l","d">>,
      <<"<",">","{","}","|","\\","^","~">>,
      <<"x00","x7F">>,
      <<"H","e","l","l","o","\t","<","W","o","r","l","d",">"," "," ","!">>,
      <<"a","xC2","xA0","xC2","xA0","b">>,
      <<"a"," ","xC2","xA0","b">>,
      <<"xC3","a">>, <<"a","xA9">> }

StringInputs == TextsUpTo(StringRunes, MaxTextChars) \cup ExampleStrings

ExampleHosts ==
    { <<"e","x","a","m","p","l","e",".","c","o","m">>,
      <<"1","9","2",".","1","6","8",".","0",".","1">>,
      <<"s","u","b","-","d","o","m","a","i","n",".","c","o","m">>,
      <<"e","x","a","m","p","l","e","!",".","c","o","m">>,
      <<"e","x","a","m","p","l","e"," ","c","o","m">>,
      <<"h","xC3","xA9","l","l","o",".","c","o","m">>,
      <<"E","x","<","x00">>, <<"a","_","b">>, <<"xC3">> }

HostInputs == TextsUpTo(HostRunes, MaxTextChars) \cup ExampleHosts

ExampleExts ==
    { <<".","t","x","t">>, <<"j","p","g">>, <<".","xC3","xA9">>,
      <<".","t","x","t","!">>, <<".",".","t","x","t">>,
      <<".","t","x","t","<",">">>, <<"a",".","b",".","c">>,
      <<" ",".","T","x","T"," ">>, <<"a",".">>, <<".","xC3">> }

ExtInputs == TextsUpTo(ExtRunes, MaxTextChars) \cup ExampleExts

\* What a tried URL starts with, its hosts, its paths and its last bytes.
UrlSchemes ==
    { <<>>, HttpPrefix, HttpsPrefix,
      <<"H","T","T","P",":","/","/">>, <<"H","t","t","p","s",":","/","/">>,
      <<"f","t","p",":","/","/">>, <<"h","t","t","p",":","/">>, <<" ">> }

UrlHosts == TextsUpTo({ <<"a">>, <<".">>, <<"!">>, LetterE }, MaxHostChars)

UrlPaths ==
    { <<>>, <<"/">>, <<"/","u","-","1","_",".","/">>, <<"/","xC3","xA9">>,
      <<"/","a"," ","b">>, <<"/","a","?">>, <<"/","xC3">>,
      <<"/","a","?","b","=","1">>, <<"/","a","?","x",":","y">>,
      <<"/","h","t","t","p",":","/","/">> }

UrlEnds == { <<>>, <<"x00">>, <<" ">>, <<"xC2","xA0">> }

ExampleUrls ==
    { <<"g","i","t","h","u","b",".","c","o","m","/","u","s","e","r">>,
      HttpsPrefix \o <<"g","i","t","h","u","b",".","c","o","m","/","u","s","e","r">>,
      HttpPrefix \o <<"e","x","a","m","p","l","e",".","c","o","m">>,
      HttpsPrefix \o <<"e","x","a","m","p","l","e"," ","c","o","m">>,
      HttpsPrefix \o <<"e","x","a","m","p","l","e",".","c","o","m","x00">>,
      <<"H","T","T","P",":","/","/","e","x","a","m","p","l","e",".","c","o","m">>,
      <<"f","t","p",":","/","/","e","x","a","m","p","l","e",".","c","o","m">> }

UrlInputs ==
    { p \o h \o t \o e :
        p \in UrlSchemes, h \in UrlHosts, t \in UrlPaths, e \in UrlEnds }
    \cup ExampleUrls

\* The optional requireProtocol arguments of a call of Url.
ProtocolArgs == { <<>>, <<TRUE>>, <<FALSE>> }

ExampleComps ==
    { <<"f","i","l","e",".","t","x","t">>,
      <<"f","i","l","e",".","t","a","r",".","g","z">>,
      <<"f","i","l","e">>, <<".","h","i","d","d","e","n">>,
      <<"xC3","xA9",".","xC3","xA9">> }

CompInputs == StringsUpTo({"a", ".", "/"}, MaxTextChars) \cup ExampleComps

\* The callers that call at the same time, the functions they call and
\* the arguments they pass.
NumCallers == 2

Callers == 1..NumCallers

ConcFns == {"String", "Hostname", "Extension", "Url", "FileName", "DirName",
            "Path", "HasFileExtension"}

ConcInputs ==
    { <<"a","<"," ","b">>, <<"a",".","B","x00">>,
      HttpPrefix \o <<"a","/","b">> }

----------------------------------------------------------------------------
(* The callers: one call at a time, on any input; the result of a call     *)
(* that succeeded may be passed to the same function again.                 *)

\* The function f applied to x (allowNav matters to Path only,
\* requireProtocol to Url only).
Apply(f, x, allowNav, requireProtocol) ==
    CASE f = "FileName"  -> FileName(x)
      [] f = "DirName"   -> DirName(x)
      [] f = "Path"      -> Path(x, allowNav)
      [] f = "String"    -> String(x)
      [] f = "Hostname"  -> Hostname(x)
      [] f = "Extension" -> Extension(x)
      [] f = "Url"       -> Url(x, requireProtocol)
      [] f = "UrlWithQuery" -> UrlWithQuery(x, requireProtocol)
      [] f = "HasFileExtension" -> Bool(HasFileExtension(x))

\* What one of the concurrent callers holds: where its call is, the
\* function and the argument, the strings.Builder of the call (String and
\* Url have one) and the result.
Idle == [pc |-> "idle", f |-> "none", input |-> <<>>, builder |-> <<>>,
         result |-> NoResult]

\* The paths handed to CreateFileIfNotExist: "", ".", two paths of the
\* temporary directory and a path of more than 4096 bytes.
CreatePaths ==
    { <<>>, <<".">>, <<"a">>, <<"b">>, Rep("p", FsMaxPathLen + 1) }

\* A caller of CreateFileIfNotExist that is not in a call: pc is where the
\* call stands ("idle", "stat" before os.Stat, "open" before os.OpenFile,
\* "done" once it has returned), path its argument, result what it returned.
IdleCreator == [pc |-> "idle", path |-> <<>>, result |-> NoResult]

\* No call of UploadFiles or UploadOneFile has been made on the request.
NoUpload ==
    [op |-> "none", req |-> <<>>, max |-> 0, rename |-> FALSE,
     files |-> <<>>, written |-> <<>>, err |-> ""]

Init ==
    /\ fn = "none"
    /\ arg = <<>>
    /\ nav = FALSE
    /\ out = NoResult
    /\ again = FALSE
    /\ prev = NoResult
    /\ proto = <<>>
    /\ callers = [c \in Callers |-> Idle]
    /\ disk = {}
    /\ up = NoUpload
    /\ fs = [p \in CreatePaths |-> "absent"]
    /\ creators = [c \in Callers |-> IdleCreator]

CallFileName ==
    /\ fn = "none"
    /\ \E x \in NameInputs :
        /\ arg' = x
        /\ out' = FileName(x)
    /\ fn' = "FileName"
    /\ UNCHANGED <<proto, callers>>
    /\ UNCHANGED fileVars
    /\ nav' = FALSE
    /\ again' = FALSE
    /\ prev' = NoResult

CallDirName ==
    /\ fn = "none"
    /\ \E x \in NameInputs :
        /\ arg' = x
        /\ out' = DirName(x)
    /\ fn' = "DirName"
    /\ UNCHANGED <<proto, callers>>
    /\ UNCHANGED fileVars
    /\ nav' = FALSE
    /\ again' = FALSE
    /\ prev' = NoResult

CallPath ==
    /\ fn = "none"
    /\ \E x \in PathInputs, allowNav \in BOOLEAN :
        /\ arg' = x
        /\ nav' = allowNav
        /\ out' = Path(x, allowNav)
    /\ fn' = "Path"
    /\ UNCHANGED <<proto, callers>>
    /\ UNCHANGED fileVars
    /\ again' = FALSE
    /\ prev' = NoResult

\* The caller sanitizes the value it got once more, with the same function.
Resanitize ==
    /\ fn # "none"
    /\ out.st = "ok"
    /\ arg' = out.val
    /\ out' = Apply(fn, out.val, nav, proto)
    /\ prev' = out
    /\ again' = TRUE
    /\ UNCHANGED <<fn, nav, proto, callers>>
    /\ UNCHANGED fileVars

\* The call is over.
Return ==
    /\ fn # "none"
    /\ fn' = "none"
    /\ arg' = <<>>
    /\ nav' = FALSE
    /\ out' = NoResult
    /\ again' = FALSE
    /\ prev' = NoResult
    /\ proto' = <<>>
    /\ UNCHANGED callers
    /\ UNCHANGED fileVars

Next == CallFileName \/ CallDirName \/ CallPath \/ Resanitize \/ Return

Spec == Init /\ [][Next]_vars

----------------------------------------------------------------------------
(* The callers of the text sanitizers.                                      *)

CallString ==
    /\ fn = "none"
    /\ \E x \in StringInputs :
        /\ arg' = x
        /\ out' = String(x)
    /\ fn' = "String"
    /\ nav' = FALSE
    /\ again' = FALSE
    /\ prev' = NoResult
    /\ UNCHANGED <<proto, callers>>
    /\ UNCHANGED fileVars

CallHostname ==
    /\ fn = "none"
    /\ \E x \in HostInputs :
        /\ arg' = x
        /\ out' = Hostname(x)
    /\ fn' = "Hostname"
    /\ nav' = FALSE
    /\ again' = FALSE
    /\ prev' = NoResult
    /\ UNCHANGED <<proto, callers>>
    /\ UNCHANGED fileVars

CallExtension ==
    /\ fn = "none"
    /\ \E x \in ExtInputs :
        /\ arg' = x
        /\ out' = Extension(x)
    /\ fn' = "Extension"
    /\ nav' = FALSE
    /\ again' = FALSE
    /\ prev' = NoResult
    /\ UNCHANGED <<proto, callers>>
    /\ UNCHANGED fileVars

CallUrl ==
    /\ fn = "none"
    /\ \E x \in UrlInputs, requireProtocol \in ProtocolArgs :
        /\ arg' = x
        /\ proto' = requireProtocol
        /\ out' = Url(x, requireProtocol)
    /\ fn' = "Url"
    /\ nav' = FALSE
    /\ again' = FALSE
    /\ prev' = NoResult
    /\ UNCHANGED callers
    /\ UNCHANGED fileVars

\* A call of Url in a build of the documented copy of the package.
CallUrlWithQuery ==
    /\ fn = "none"
    /\ \E x \in UrlInputs, requireProtocol \in ProtocolArgs :
        /\ arg' = x
        /\ proto' = requireProtocol
        /\ out' = UrlWithQuery(x, requireProtocol)
    /\ fn' = "UrlWithQuery"
    /\ nav' = FALSE
    /\ again' = FALSE
    /\ prev' = NoResult
    /\ UNCHANGED callers
    /\ UNCHANGED fileVars

CallHasFileExtension ==
    /\ fn = "none"
    /\ \E x \in CompInputs :
        /\ arg' = x
        /\ out' = Bool(HasFileExtension(x))
    /\ fn' = "HasFileExtension"
    /\ nav' = FALSE
    /\ again' = FALSE
    /\ prev' = NoResult
    /\ UNCHANGED <<proto, callers>>
    /\ UNCHANGED fileVars

NextText ==
    \/ CallString \/ CallHostname \/ CallExtension \/ CallUrl
    \/ CallUrlWithQuery \/ CallHasFileExtension \/ Resanitize \/ Return

SpecText == Init /\ [][NextText]_vars

----------------------------------------------------------------------------
(* Concurrent callers.  The package declares no variable: all a call reads  *)
(* and writes are its parameters and its locals.  A call of String or Url   *)
(* (and of Hostname, which calls String) takes two steps, the loop that   *)
(* fills its builder and the rest; the other functions keep nothing      *)
(* between two statements that another call could touch, and take one.   *)

\* The functions whose call fills a strings.Builder (Hostname in its call
\* of String).
BuilderFns == {"String", "Hostname", "Url"}

\* The result of f from what its loop wrote to the builder.
FromBuilder(f, built) ==
    CASE f = "String"   -> StringRest(built)
      [] f = "Hostname" -> HostnameRest(StringRest(built))
      [] f = "Url"      -> UrlRest(built, <<>>)

\* A builder declared at package level: every call reads the same one.
BuilderOfPackage(cs, c) == cs[1].builder

\* The builder that the call of caller c reads: its own local.
BuilderOf(cs, c) == cs[c].builder

Invoke(c) ==
    /\ callers[c].pc = "idle"
    /\ \E f \in ConcFns, x \in ConcInputs :
        callers' = [callers EXCEPT ![c] =
                       [pc |-> "called", f |-> f, input |-> x,
                        builder |-> <<>>, result |-> NoResult]]
    /\ UNCHANGED seqVars
    /\ UNCHANGED fileVars

\* The loop over the runes of the input, which writes to the builder.
Build(c) ==
    /\ callers[c].pc = "called"
    /\ callers[c].f \in BuilderFns
    /\ callers' = [callers EXCEPT ![c].pc = "built",
                                  ![c].builder = WriteNonControl(callers[c].input)]
    /\ UNCHANGED seqVars
    /\ UNCHANGED fileVars

\* The rest of String and Url, from builder.String() to the return.
Finalize(c) ==
    /\ callers[c].pc = "built"
    /\ callers' = [callers EXCEPT ![c].pc = "done",
                                  ![c].result =
                                      FromBuilder(callers[c].f,
                                                  BuilderOf(callers, c))]
    /\ UNCHANGED seqVars
    /\ UNCHANGED fileVars

\* A whole call of a function without a builder.
Run(c) ==
    /\ callers[c].pc = "called"
    /\ callers[c].f \notin BuilderFns
    /\ callers' = [callers EXCEPT ![c].pc = "done",
                                  ![c].result =
                                      Apply(callers[c].f, callers[c].input,
                                            FALSE, <<>>)]
    /\ UNCHANGED seqVars
    /\ UNCHANGED fileVars

\* The caller takes the result: nothing of the call is left.
Collect(c) ==
    /\ callers[c].pc = "done"
    /\ callers' = [callers EXCEPT ![c] = Idle]
    /\ UNCHANGED seqVars
    /\ UNCHANGED fileVars

NextConc ==
    \E c \in Callers :
        Invoke(c) \/ Build(c) \/ Finalize(c) \/ Run(c) \/ Collect(c)

SpecConc == Init /\ [][NextConc]_vars

----------------------------------------------------------------------------
(* Package filesystem (src/filesystem/filesystem.go): SanitizeFilename.     *)

\* The sequences seqs[lo], ..., seqs[hi], concatenated (by halves, as the
\* names are hundreds of bytes long).
RECURSIVE ConcatRange(_, _, _)
ConcatRange(seqs, lo, hi) ==
    IF lo > hi THEN <<>>
    ELSE IF lo = hi THEN seqs[lo]
    ELSE ConcatRange(seqs, lo, (lo + hi) \div 2)
         \o ConcatRange(seqs, (lo + hi) \div 2 + 1, hi)

\* invalidChars of SanitizeFilename.
InvalidChars == {"/", "\\", ":", "*", "?", "\"", "<", ">", "|"}

\* The loop of strings.ReplaceAll(cleaned, char, "_") over invalidChars.
ReplaceInvalidChars(s) ==
    [i \in 1..Len(s) |-> IF s[i] \in InvalidChars THEN "_" ELSE s[i]] \o <<>>

\* strings.Map with "!unicode.IsPrint(r) || unicode.IsControl(r)" -> '_':
\* a control character and U+00A0 (a space that is not the ASCII one, so not
\* printable) become one underscore; an invalid byte decodes as U+FFFD,
\* which is printable and is written encoded.
ReplaceNonPrintable(s) ==
    ConcatRange([i \in 1..Len(s) |->
                   IF s[i] \in ControlBytes \/ IsNbspLead(s, i) THEN <<"_">>
                   ELSE IF IsNbspTrail(s, i) THEN <<>>
                   ELSE IF IsInvalidAt(s, i) THEN <<"xEF", "xBF", "xBD">>
                   ELSE <<s[i]>>] \o <<>>, 1, Len(s))

\* reservedNames of SanitizeFilename.
FsReservedNames == << <<".">>, <<".", ".">> >> \o ReservedNames

\* The loop over reservedNames with strings.EqualFold(baseWithoutExt, .).
IsFsReserved(base) ==
    \E k \in 1..Len(FsReservedNames) : EqualFold(base, FsReservedNames[k])

\* "if len(cleaned) > 255 { ... cleaned = cleaned[:maxBaseLen] + ext }".
TruncateFilename(cleaned, ext) ==
    IF Len(cleaned) <= FsMaxNameLen THEN Ok(cleaned)
    ELSE IF FsMaxNameLen - Len(ext) <= 0
         THEN Err("sanitized filename is empty after truncation")
    ELSE Ok(SubSeq(cleaned, 1, FsMaxNameLen - Len(ext)) \o ext)

\* The reserved-name test, the empty test and the truncation, in the order
\* of the code.
CheckFilename(cleaned, ext) ==
    IF IsFsReserved(TrimSuffix(cleaned, ext))
    THEN Err("filename is a reserved name")
    ELSE IF cleaned = <<>> THEN Err("sanitized filename is empty")
    ELSE TruncateFilename(cleaned, ext)

\* SanitizeFilename(filename).
SanitizeFilename(filename) ==
    IF filename = <<>> THEN Err("filename cannot be empty")
    ELSE CheckFilename(
           Trim(ReplaceNonPrintable(ReplaceInvalidChars(filename)), {" ", "."}),
           Ext(Trim(ReplaceNonPrintable(ReplaceInvalidChars(filename)),
                    {" ", "."})))

\* The names of TestSanitizeFilename.
FsExampleNames ==
    { <<"f","i","l","e","/","n","a","m","e",":","w","i","t","h","?",
        "i","n","v","a","l","i","d","*","c","h","a","r","s">>,
      <<"f","i","l","e","x00","n","a","m","e">>,
      <<"C","O","N">>,
      <<"C","O","N",".","t","x","t">>,
      Rep("a", 300) \o <<".","t","x","t">>,
      <<".",".",".","f","i","l","e",".","t","x","t">>,
      <<"m","y","<","f","i","l","e",">",".","t","x","t">>,
      <<"a","xC2","xA0","b">>, <<"a","xC3">>, <<"xC3","xA9",".","t","x","t">> }

\* Names of FsMaxNameLen + 1 bytes and more whose extension leaves the base
\* a few bytes only.
FsLongExtNames ==
    { h \o <<".">> \o Rep("b", FsMaxNameLen - Len(h) + d) :
        h \in { <<"a","b","c","d">>, <<"C","O","N","x">>, <<"l","p","t","1","x">>,
                <<"a">> },
        d \in 0..Slack }

FilenameInputs ==
    ShortNames \cup LongNames \cup FsExampleNames \cup FsLongExtNames

CallSanitizeFilename ==
    /\ fn = "none"
    /\ \E x \in FilenameInputs :
        /\ arg' = x
        /\ out' = SanitizeFilename(x)
    /\ fn' = "SanitizeFilename"
    /\ nav' = FALSE
    /\ again' = FALSE
    /\ prev' = NoResult
    /\ UNCHANGED <<proto, callers>>
    /\ UNCHANGED fileVars

NextFilename == CallSanitizeFilename \/ Return

SpecFilename == Init /\ [][NextFilename]_vars

----------------------------------------------------------------------------
(* Package filesystem: CreateFileIfNotExist, called by callers at the same  *)
(* time.  fs is the directory tree the calls share: each path is absent, a  *)
(* file or a directory.  A call is its argument checks, then the system     *)
(* call os.Stat, then, if the path was absent, the system call os.OpenFile  *)
(* with O_CREATE|O_EXCL; other calls may run between the two system calls.  *)

\* The paths of the temporary directory.
TempPaths == { <<"a">>, <<"b">> }

\* A nil error.
Nil == Ok(<<>>)

\* os.Mkdir(dirPath, 0755) of the test, on a path that does not exist.
Mkdir(p) ==
    /\ fs[p] = "absent"
    /\ fs' = [fs EXCEPT ![p] = "dir"]
    /\ UNCHANGED <<seqVars, callers, disk, up, creators>>

\* The call and its argument checks: path == "" || path == ".", then
\* len(path) > 4096.
CallCreateFileIfNotExist(c) ==
    /\ creators[c].pc = "idle"
    /\ \E p \in CreatePaths :
        creators' = [creators EXCEPT ![c] =
            IF p = <<>> \/ p = <<".">>
            THEN [pc |-> "done", path |-> p,
                  result |-> Err("path cannot be empty or root")]
            ELSE IF Len(p) > FsMaxPathLen
            THEN [pc |-> "done", path |-> p, result |-> Err("path too long")]
            ELSE [pc |-> "stat", path |-> p, result |-> NoResult]]
    /\ UNCHANGED <<seqVars, callers, disk, up, fs>>

\* info, err := os.Stat(path) and the tests of its result: a directory is
\* an error, a file is nil, and a path that does not exist goes on to
\* os.OpenFile.
Stat(c) ==
    /\ creators[c].pc = "stat"
    /\ creators' = [creators EXCEPT ![c] =
           IF fs[creators[c].path] = "dir"
           THEN [@ EXCEPT !.pc = "done",
                          !.result = Err("path is a directory, not a file")]
           ELSE IF fs[creators[c].path] = "file"
           THEN [@ EXCEPT !.pc = "done", !.result = Nil]
           ELSE [@ EXCEPT !.pc = "open"]]
    /\ UNCHANGED <<seqVars, callers, disk, up, fs>>

\* os.OpenFile(path, os.O_CREATE|os.O_EXCL, fileMode): creates the file if
\* the path does not exist and fails with "file exists" if it does; then
\* "return err" or "return file.Close()".
OpenFile(c) ==
    /\ creators[c].pc = "open"
    /\ IF fs[creators[c].path] = "absent"
       THEN /\ fs' = [fs EXCEPT ![creators[c].path] = "file"]
            /\ creators' = [creators EXCEPT ![c].pc = "done",
                                            ![c].result = Nil]
       ELSE /\ fs' = fs
            /\ creators' = [creators EXCEPT ![c].pc = "done",
                                            ![c].result = Err("file exists")]
    /\ UNCHANGED <<seqVars, callers, disk, up>>

\* The caller takes the error the call returned.
CreateReturn(c) ==
    /\ creators[c].pc = "done"
    /\ creators' = [creators EXCEPT ![c] = IdleCreator]
    /\ UNCHANGED <<seqVars, callers, disk, up, fs>>

NextCreate ==
    \/ \E p \in TempPaths : Mkdir(p)
    \/ \E c \in Callers :
         CallCreateFileIfNotExist(c) \/ Stat(c) \/ OpenFile(c) \/ CreateReturn(c)

SpecCreate == Init /\ [][NextCreate]_vars

----------------------------------------------------------------------------
(* Package upload (src/upload/upload_test.go holds its code): UploadFiles   *)
(* and UploadOneFile.  A request is the sequence of the file headers of     *)
(* its multipart form, each a file name, a size in bytes and a              *)
(* Content-Type.  disk is the set of the names of the files of uploadDir,   *)
(* and up the last call: its request, the MaxFileSize of the FileOperation, *)
(* its rename flag, the encoded names of the files it returned, the names   *)
(* it created in uploadDir, in order, and the error it returned ("" is nil).*)

\* f.MaxFileSize << 20 and the megabyte: 2^20 bytes.
Mega == 2^20

\* MaxFileSize of the examples of the documentation (10 and 5).
MaxFileSizes == {5, 10}

\* AllowedFileTypes of the tests.
AllowedFileTypes == {"text/plain", "application/octet-stream"}

\* The results generateRandomHex(32) may give.
HexNames == { Rep("0", 32), Rep("f", 32) }

\* The largest number of files of a request.
MaxFiles == 2

TxtName(b) == <<b, ".", "t", "x", "t">>

\* The file headers of the requests made with a FileOperation whose
\* MaxFileSize is max: well-formed files of sizes about max bytes and
\* about max megabytes, a reserved name, a name without extension, a
\* Content-Type that is not allowed and one that is missing.
Headers(max) ==
    { [name |-> TxtName("a"), size |-> n, mime |-> "text/plain"] :
        n \in {max, max + 1, max * Mega, max * Mega + 1} }
    \cup
    { [name |-> TxtName("c"), size |-> 1, mime |-> "application/octet-stream"],
      [name |-> <<"C", "O", "N">>, size |-> 1, mime |-> "text/plain"],
      [name |-> <<"b">>, size |-> 1, mime |-> "text/plain"],
      [name |-> TxtName("a"), size |-> 1, mime |-> "image/png"],
      [name |-> TxtName("a"), size |-> 0, mime |-> ""] }

\* The requests: up to MaxFiles file headers.
Requests(max) ==
    UNION { [1..n -> Headers(max)] : n \in 0..MaxFiles }

\* f.Validate.Struct(uploadedFile): OriginalName, EncodedName and FullPath
\* are required (not ""), FileMimeType is required and of AllowedFileTypes,
\* Extension is required, FileSize is at least 0.
ValidateStruct(header, encodedName) ==
    /\ header.name # <<>>
    /\ encodedName # <<>>
    /\ header.mime # ""
    /\ header.mime \in AllowedFileTypes
    /\ Ext(encodedName) # <<>>
    /\ header.size >= 0

\* The end of the function of one header, from os.Create on: the file is
\* created and written in uploadDir, and then its UploadedFile is validated.
StoreFile(header, encodedName) ==
    [name |-> encodedName, stored |-> TRUE,
     err |-> IF ValidateStruct(header, encodedName) THEN ""
             ELSE "failed to validate uploaded file"]

\* The function called on one header of the form.
SaveFile(header, max, rename, hexStr) ==
    IF header.name = <<>>
    THEN [name |-> <<>>, stored |-> FALSE, err |-> "filename cannot be empty"]
    ELSE IF header.size > max
    THEN [name |-> <<>>, stored |-> FALSE, err |-> "file size exceeds maximum"]
    ELSE IF SanitizeFilename(header.name).st # "ok"
    THEN [name |-> <<>>, stored |-> FALSE,
          err |-> "failed to sanitize filename"]
    ELSE StoreFile(header,
                   IF rename
                   THEN hexStr \o Ext(SanitizeFilename(header.name).val)
                   ELSE SanitizeFilename(header.name).val)

\* The loop over the headers from header i on, with the files appended so
\* far: the first error ends it, with the files of the headers before.
RECURSIVE UploadFrom(_, _, _, _, _, _, _)
RECURSIVE AfterSave(_, _, _, _, _, _, _, _)
AfterSave(req, i, max, rename, hexes, files, written, saved) ==
    IF saved.err # ""
    THEN [files |-> files,
          written |-> IF saved.stored THEN Append(written, saved.name)
                      ELSE written,
          err |-> saved.err]
    ELSE UploadFrom(req, i + 1, max, rename, hexes,
                    Append(files, saved.name), Append(written, saved.name))

UploadFrom(req, i, max, rename, hexes, files, written) ==
    IF i > Len(req)
    THEN [files |-> files, written |-> written,
          err |-> IF Len(files) = 0 THEN "no files uploaded" ELSE ""]
    ELSE AfterSave(req, i, max, rename, hexes, files, written,
                   SaveFile(req[i], max, rename, hexes[i]))

\* UploadFiles(r, uploadDir, rename) of a FileOperation with MaxFileSize
\* max; hexes[i] is what generateRandomHex gives for header i.
UploadFiles(req, max, rename, hexes) ==
    UploadFrom(req, 1, max, rename, hexes, <<>>, <<>>)

\* The rest of UploadOneFile, after its call of UploadFiles.
ExpectOne(uploaded) ==
    IF uploaded.err # "" THEN [uploaded EXCEPT !.files = <<>>]
    ELSE IF Len(uploaded.files) # 1
    THEN [uploaded EXCEPT !.files = <<>>,
                          !.err = "multiple files uploaded, expected one"]
    ELSE uploaded

\* UploadOneFile(r, uploadDir, rename).
UploadOneFile(req, max, rename, hexes) ==
    ExpectOne(UploadFiles(req, max, rename, hexes))

\* What generateRandomHex may give for the headers of a request.
HexChoices(rename) ==
    IF rename THEN [1..MaxFiles -> HexNames]
    ELSE {[i \in 1..MaxFiles |-> <<>>]}

\* The call, and what it leaves in uploadDir.
Uploaded(op, req, max, rename, result) ==
    /\ up' = [op |-> op, req |-> req, max |-> max, rename |-> rename,
              files |-> result.files, written |-> result.written,
              err |-> result.err]
    /\ disk' = disk \cup Range(result.written)

CallUploadFiles ==
    /\ up.op = "none"
    /\ \E max \in MaxFileSizes, rename \in BOOLEAN :
         \E req \in Requests(max), hexes \in HexChoices(rename) :
            Uploaded("UploadFiles", req, max, rename,
                     UploadFiles(req, max, rename, hexes))
    /\ UNCHANGED <<seqVars, callers, fs, creators>>

CallUploadOneFile ==
    /\ up.op = "none"
    /\ \E max \in MaxFileSizes, rename \in BOOLEAN :
         \E req \in Requests(max), hexes \in HexChoices(rename) :
            Uploaded("UploadOneFile", req, max, rename,
                     UploadOneFile(req, max, rename, hexes))
    /\ UNCHANGED <<seqVars, callers, fs, creators>>

\* The next test begins with a new temporary directory.
NewTempDir ==
    /\ up.op # "none"
    /\ up' = NoUpload
    /\ disk' = {}
    /\ UNCHANGED <<seqVars, callers, fs, creators>>

NextUpload == CallUploadFiles \/ CallUploadOneFile \/ NewTempDir

SpecUpload == Init /\ [][NextUpload]_vars

----------------------------------------------------------------------------
(* Properties of the sanitizers.                                            *)

\* The output of a name sanitizer with its final extension removed.
BaseOf(name) == TrimSuffix(name, Ext(name))

\* The last non-empty element of a path ("" if there is none).
LastElement(p) ==
    LET elems == SelectSeq(Split(p, "/"), LAMBDA e : e # <<>>)
    IN  IF Len(elems) = 0 THEN <<>> ELSE elems[Len(elems)]

\* Whether FileName panics on a component of the trimmed path.
ComponentPanics(path) ==
    \E r \in Range(ComponentResults(ToSlash(TrimSpace(path)))) : r.st = "panic"

\* finalPath of Path(path, .) before the reattachment.
CleanedOf(path) ==
    FinalPath(ToSlash(TrimSpace(path)),
              ComponentResults(ToSlash(TrimSpace(path))))

DotSlash == <<".", "/">>

ParentSlash == <<".", ".", "/">>

NavExample ==
    <<".","/","p","a","t","h","/",".",".","/","t","o","/","f","i","l","e",".","t","x","t">>

\* C1: whenever FileName succeeds, the base of its output (the output with
\* its final extension removed) is not, case-insensitively, a reserved
\* device name.
C1_FileNameOutputNotReserved ==
    (fn = "FileName" /\ out.st = "ok") => ~IsReserved(BaseOf(out.val))

\* C2: whenever DirName succeeds, its output is not, case-insensitively, a
\* reserved device name.
C2_DirNameOutputNotReserved ==
    (fn = "DirName" /\ out.st = "ok") => ~IsReserved(out.val)

\* C3: FileName never faults; it returns an error or a name of at most 255
\* bytes that ends with the complete normalized extension of its input.
C3_FileNameFitsAndKeepsExtension ==
    fn = "FileName" =>
        /\ out.st \in {"ok", "err"}
        /\ out.st = "ok" =>
            /\ Len(out.val) <= MaxNameLen
            /\ Ext(arg) # <<>> => HasSuffix(out.val, Extension(Ext(arg)).val)

\* C4: every successful result of Path, as returned, is at most 4096 bytes
\* long.
C4_PathOutputWithinMaxLength ==
    (fn = "Path" /\ out.st = "ok") => Len(out.val) <= MaxPathLen

C6_NoLeadingRelativeWithoutNav ==
    (fn = "Path" /\ ~nav /\ out.st = "ok") =>
        ~HasPrefix(out.val, DotSlash) /\ ~HasPrefix(out.val, ParentSlash)

C8_FileNameIdempotent ==
    (fn = "FileName" /\ again) => out = prev

\* C9: DirName is idempotent, also for names cut at the 255-byte cap and
\* names that start with a dot.
C9_DirNameIdempotent ==
    (fn = "DirName" /\ again) => out = prev

\* C10: Path is idempotent for each fixed allowNav.
C10_PathIdempotent ==
    (fn = "Path" /\ again) => out = prev

----------------------------------------------------------------------------
(* Properties of the text sanitizers.                                       *)

TextFns == {"String", "Hostname", "Extension", "Url"}

\* C11: String, Hostname, Extension and Url (with the same requireProtocol
\* arguments) are idempotent: sanitizing a successful result again succeeds
\* and returns the same text.
C11_TextSanitizersIdempotent ==
    (fn \in TextFns /\ again) => out = prev

\* C11 happens: a result of String, with a space that String had put
\* for a run of spaces and unsafe characters, went through String again.
C11_Witness ==
    /\ fn = "String"
    /\ again
    /\ prev = Ok(<<"a", " ", "a">>)
    /\ arg = prev.val
    /\ out = prev

\* The byte at i is of a letter, of a digit, an underscore or a hyphen.
IsNameByteAt(s, i) ==
    IsLetterAt(s, i) \/ IsNumberAt(s, i) \/ s[i] \in {"_", "-"}

\* C12: a successful FileName output is a base of letters, digits,
\* underscores and hyphens, optionally followed by one extension (a dot and
\* letters or digits); a successful DirName output is made of letters,
\* digits, underscores and hyphens only.
C12_NameOutputsWhitelisted ==
    /\ (fn = "FileName" /\ out.st = "ok") =>
          LET e == Ext(out.val)
              b == BaseOf(out.val)
          IN  /\ b # <<>>
              /\ \A i \in 1..Len(b) : IsNameByteAt(b, i)
              /\ e # <<>> =>
                   /\ Len(e) >= 2
                   /\ \A i \in 2..Len(e) : IsLetterAt(e, i) \/ IsNumberAt(e, i)
    /\ (fn = "DirName" /\ out.st = "ok") =>
          \A i \in 1..Len(out.val) : IsNameByteAt(out.val, i)

\* The character that starts at i is a white space and so is the next one.
SpaceRunAt(s, i) ==
    \/ s[i] \in WhiteSpace /\ i < Len(s) /\ IsSpaceAt(s, i + 1)
    \/ IsNbspLead(s, i) /\ i + 1 < Len(s) /\ IsSpaceAt(s, i + 2)

HelloExample ==
    <<"H","e","l","l","o","\t","<","W","o","r","l","d",">"," "," ","!">>

\* C13: a successful String output has no control character and none of
\* < > { } | \ ^ ~, no white space at either end and no two white-space
\* characters in a row; String fails exactly when nothing remains;
\* String("Hello\t<World>  !") is "Hello World !".
C13_StringOutputClean ==
    fn = "String" =>
        /\ out.st \in {"ok", "err"}
        /\ out.st = "ok" =>
            /\ out.val # <<>>
            /\ \A i \in 1..Len(out.val) :
                 /\ out.val[i] \notin ControlBytes \cup UnsafeBytes
                 /\ ~SpaceRunAt(out.val, i)
            /\ ~IsSpaceAt(out.val, 1)
            /\ ~IsSpaceAt(out.val, Len(out.val))
        /\ out.st = "err" => out.err = "sanitized string is empty"
        /\ out.st = "err"
             <=> \A i \in 1..Len(arg) :
                   arg[i] \in ControlBytes \cup UnsafeBytes \/ IsSpaceAt(arg, i)
        /\ arg = HelloExample =>
             out = Ok(<<"H","e","l","l","o"," ","W","o","r","l","d"," ","!">>)

\* The letters, digits and dots of s, lower-cased.
ExtensionBytes(s) ==
    LET keep == SelectSeq(Indices(s), LAMBDA i :
                    IsLetterAt(s, i) \/ IsNumberAt(s, i) \/ s[i] = ".")
    IN  [k \in 1..Len(keep) |-> ToLowerByte(s[keep[k]])] \o <<>>

\* What follows the last dot of s (s itself if it has no dot).
AfterLastDot(s) ==
    LET dots == SelectSeq(Indices(s), LAMBDA i : s[i] = ".")
    IN  IF Len(dots) = 0 THEN s ELSE SubSeq(s, dots[Len(dots)] + 1, Len(s))

\* C14: a successful Extension output is one dot followed by one or more
\* lower-cased letters or digits and no other dot; of several segments only
\* the text after the final dot survives (Extension("a.b.c") is ".c",
\* Extension("..txt") is ".txt"); Extension fails when that text is empty.
C14_ExtensionShape ==
    fn = "Extension" =>
        LET seg == AfterLastDot(ExtensionBytes(arg))
        IN  /\ out = IF seg = <<>>
                     THEN Err("sanitized extension is empty or invalid")
                     ELSE Ok(<<".">> \o seg)
            /\ out.st = "ok" =>
                /\ Len(out.val) >= 2
                /\ out.val[1] = "."
                /\ \A i \in 2..Len(out.val) :
                     /\ IsLetterAt(out.val, i) \/ IsNumberAt(out.val, i)
                     /\ out.val[i] \notin AsciiUpper
            /\ arg = <<"a",".","b",".","c">> => out = Ok(<<".","c">>)
            /\ arg = <<".",".","t","x","t">> => out = Ok(<<".","t","x","t">>)

\* C14 happens: of the segments of "a.b.c" Extension returned the last.
C14_Witness ==
    /\ fn = "Extension"
    /\ arg = <<"a",".","b",".","c">>
    /\ out = Ok(<<".","c">>)

\* s with its ASCII letters in upper case.
UpperCased(s) == [i \in 1..Len(s) |-> ToUpperByte(s[i])] \o <<>>

\* C15: FileName fails with the reserved-name error exactly for the inputs
\* (other than ".") whose trimmed base, the name without its final
\* extension and before anything is stripped from it, is a reserved device
\* name in any letter case: "CON", "con.txt", "NUL" and "CON.txt" are
\* rejected.
C15_ReservedBaseRejected ==
    (fn = "FileName" /\ arg # <<".">>) =>
        /\ out = Err("filename is a reserved name")
             <=> UpperCased(TrimSpace(BaseOf(arg))) \in Range(ReservedNames)
        /\ arg \in { <<"C","O","N">>, <<"c","o","n",".","t","x","t">>,
                     <<"N","U","L">>, <<"C","O","N",".","t","x","t">> }
             => out = Err("filename is a reserved name")

\* C15 happens: FileName rejected "con.txt", whose base is a reserved name
\* in lower case.
C15_Witness ==
    /\ fn = "FileName"
    /\ arg = <<"c","o","n",".","t","x","t">>
    /\ out = Err("filename is a reserved name")

\* The components of the raw path, as Path splits them.
ComponentsOf(path) == Split(ToSlash(TrimSpace(path)), "/")

\* The values of the components of path that sanitize, in order.
SanitizedInOrder(path) ==
    LET rs  == ComponentResults(ToSlash(TrimSpace(path)))
        oks == SelectSeq(Indices(rs), LAMBDA i : rs[i].st = "ok")
    IN  [k \in 1..Len(oks) |-> rs[oks[k]].val] \o <<>>

PathErrors ==
    {"path is empty", "sanitized path is empty",
     "sanitized path exceeds maximum length"}

DroppedFileExample == <<"p","a","t","h","/","<",">","/","f","i","l","e",".","t","x","t">>

DroppedDirExample == <<"/","p","a","t","h","/","<",">","/","d","i","r">>

\* C16: Path returns none of the errors of its components; a component that
\* fails to sanitize is dropped and the others are kept in their order (for
\* a path without "." and ".." components the elements of the result are
\* the sanitized components); Path("path/<>/file.txt", false) is
\* "path/file.txt" and Path("/path/<>/dir", false) is "/path/dir/".
C16_FailingComponentsDropped ==
    (fn = "Path" /\ out.st # "panic") =>
        /\ out.st = "err" => out.err \in PathErrors
        /\ ( /\ out.st = "ok"
             /\ \A i \in 1..Len(ComponentsOf(arg)) :
                  ComponentsOf(arg)[i] \notin {<<".">>, <<".", ".">>} )
           => SelectSeq(Split(out.val, "/"), LAMBDA e : e # <<>>)
                = SanitizedInOrder(arg)
        /\ (arg = DroppedFileExample /\ ~nav) =>
             out = Ok(<<"p","a","t","h","/","f","i","l","e",".","t","x","t">>)
        /\ (arg = DroppedDirExample /\ ~nav) =>
             out = Ok(<<"/","p","a","t","h","/","d","i","r","/">>)

\* C16 happens: Path dropped the component "<>", which DirName rejects, and
\* returned the two others.
C16_Witness ==
    /\ fn = "Path"
    /\ arg = DroppedFileExample
    /\ DirName(<<"<", ">">>).st = "err"
    /\ out = Ok(<<"p","a","t","h","/","f","i","l","e",".","t","x","t">>)

\* C17: Url requires a protocol unless told otherwise, and checks in this
\* order: nothing left after control characters are removed and the text
\* trimmed (empty error), no match of the pattern (invalid-format error),
\* a required protocol that is missing (missing-protocol error); otherwise
\* it returns the cleaned text.  With a required protocol a successful
\* result begins with http:// or https://.
C17_UrlChecksInOrder ==
    fn = "Url" =>
        LET cleaned  == TrimSpace(WriteNonControl(arg))
            required == proto = <<>> \/ proto[1]
            lowered  == ToLower(cleaned)
        IN  /\ out = IF cleaned = <<>> THEN Err("sanitized url is empty")
                     ELSE IF ~MatchesUrl(cleaned) THEN Err("invalid url format")
                     ELSE IF /\ required
                             /\ ~HasPrefix(lowered, HttpPrefix)
                             /\ ~HasPrefix(lowered, HttpsPrefix)
                     THEN Err("url must have protocol")
                     ELSE Ok(cleaned)
            /\ (required /\ out.st = "ok") =>
                 HasPrefix(out.val, HttpPrefix) \/ HasPrefix(out.val, HttpsPrefix)

\* C17 happens: Url, called without a requireProtocol argument, refused a
\* well-formed URL that has no protocol.
C17_Witness ==
    /\ fn = "Url"
    /\ proto = <<>>
    /\ arg = <<"g","i","t","h","u","b",".","c","o","m","/","u","s","e","r">>
    /\ out = Err("url must have protocol")

HostBytes == AsciiUpper \cup AsciiLower \cup AsciiDigit \cup {".", "-"}

\* C18: Hostname returns the text that String makes of its input exactly
\* when that text is made of ASCII letters, ASCII digits, dots and hyphens;
\* it returns String's error when String fails, and the invalid-format
\* error for any other character (a non-ASCII letter, an inner space).
C18_HostnameAsciiOnly ==
    fn = "Hostname" =>
        LET cleaned == String(arg)
        IN  out = IF cleaned.st = "err" THEN cleaned
                  ELSE IF \A i \in 1..Len(cleaned.val) : cleaned.val[i] \in HostBytes
                  THEN Ok(cleaned.val)
                  ELSE Err("invalid hostname or IP format")

\* C18 happens: Hostname refused a name with a non-ASCII letter.
C18_Witness ==
    /\ fn = "Hostname"
    /\ arg = <<"h","xC3","xA9","l","l","o",".","c","o","m">>
    /\ String(arg).st = "ok"
    /\ out = Err("invalid hostname or IP format")

\* C19: HasFileExtension(s) holds exactly when s has a dot that is not its
\* first byte and has no separator after it, that is a non-empty extension
\* that is not all of s: it holds for "file.txt" and "file.tar.gz", and not
\* for "file", "", "." and ".hidden".
C19_HasFileExtensionExact ==
    fn = "HasFileExtension" =>
        /\ out = Bool(\E i \in 2..Len(arg) :
                        /\ arg[i] = "."
                        /\ \A j \in i..Len(arg) : arg[j] # "/")
        /\ arg \in { <<"f","i","l","e",".","t","x","t">>,
                     <<"f","i","l","e",".","t","a","r",".","g","z">> }
             => out = Bool(TRUE)
        /\ arg \in { <<"f","i","l","e">>, <<>>, <<".">>,
                     <<".","h","i","d","d","e","n">> }
             => out = Bool(FALSE)

\* C19 happens: HasFileExtension said no to ".hidden".
C19_Witness ==
    /\ fn = "HasFileExtension"
    /\ arg = <<".","h","i","d","d","e","n">>
    /\ out = Bool(FALSE)

----------------------------------------------------------------------------
(* Further properties of FileName, DirName and Path.                        *)

DocExample == <<"d","i","r","/",".",".","/","f","i","l","e",".","t","x","t">>

\* C21: Path("dir/../file.txt", true) returns "./file.txt", as the example
\* of Path's documentation says.
C21_DocExampleKeepsDotSlash ==
    (fn = "Path" /\ nav /\ arg = DocExample) =>
        out = Ok(<<".","/","f","i","l","e",".","t","x","t">>)

\* The component has a dot that is not its first byte.
HasDotSuffix(comp) == \E j \in 2..Len(comp) : comp[j] = "."

\* What the rule of the components gives for the component at index i.
ExpectedComponent(components, i) ==
    IF components[i] \in {<<".">>, <<".", ".">>} THEN Ok(components[i])
    ELSE IF i = Len(components) /\ HasDotSuffix(components[i])
    THEN FileName(components[i])
    ELSE DirName(components[i])

\* Every component that is not empty has the result that the rule gives.
FollowsRule(components, results) ==
    \A i \in 1..Len(components) :
        components[i] # <<>> => results[i] = ExpectedComponent(components, i)

DottedDirExample == <<"a",".","t","x","t","/","b">>

\* C25: in Path a component "." or ".." is kept as it is, whatever allowNav
\* is; the last component of the split path, when it has an extension, goes
\* through FileName; every other component, also one with a dot that is not
\* the last and a last one without extension, goes through DirName
\* (Path("a.txt/b", .) is "atxt/b/").
C25_ComponentRule ==
    fn = "Path" =>
        /\ FollowsRule(ComponentsOf(arg),
                       ComponentResults(ToSlash(TrimSpace(arg))))
        /\ arg = DottedDirExample =>
             out = Ok(<<"a","t","x","t","/","b","/">>)

\* C25 happens: Path sanitized "a.txt", which is not the last component,
\* as a directory name.
C25_Witness ==
    /\ fn = "Path"
    /\ arg = DottedDirExample
    /\ out = Ok(<<"a","t","x","t","/","b","/">>)

\* s has no two underscores in a row and none at either end.
UnderscoresTidy(s) ==
    /\ s # <<>> => s[1] # "_" /\ s[Len(s)] # "_"
    /\ \A i \in 1..(Len(s) - 1) : ~(s[i] = "_" /\ s[i + 1] = "_")

\* C26: the base of a successful FileName output and a successful DirName
\* output have no two adjacent underscores and no underscore at either
\* end, also when the name was cut to 255 bytes.
C26_UnderscoresCollapsedAndTrimmed ==
    /\ (fn = "FileName" /\ out.st = "ok") => UnderscoresTidy(BaseOf(out.val))
    /\ (fn = "DirName" /\ out.st = "ok") => UnderscoresTidy(out.val)

\* DirName before its cut to 255: the sanitized name ("" when DirName
\* fails).
DirNameUncut(dirname) ==
    LET trimmed == Trim(TrimSpace(dirname), {"/", "\\"})
    IN  IF trimmed = <<>> THEN <<>>
        ELSE Trim(CollapseUnderscores(StripUnsafe(
                 IF HasPrefix(trimmed, <<".">>)
                 THEN <<"d","i","r","_">> \o TrimLeft(trimmed, {"."})
                 ELSE trimmed)), {"_"})

\* Where the characters of s start.
CharStarts(s) == SelectSeq(Indices(s), LAMBDA i : ~IsTrail(s, i))

\* The first n characters of s.
FirstChars(s, starts, n) ==
    IF Len(starts) <= n THEN s ELSE SubSeq(s, 1, starts[n + 1] - 1)

\* C27: DirName returns the first 255 characters (whole characters) of a
\* sanitized name that has more, and a sanitized name of 255 characters or
\* fewer as it is.
C27_DirNameCutsWholeCharacters ==
    (fn = "DirName" /\ out.st = "ok") =>
        out.val = FirstChars(DirNameUncut(arg), CharStarts(DirNameUncut(arg)),
                             MaxNameLen)

\* C28: for an input that begins with a separator, a successful result of
\* Path begins with exactly one separator and has no ".." component.
C28_AbsoluteHasNoParent ==
    (fn = "Path" /\ HasPrefix(arg, PathSeparator) /\ out.st = "ok") =>
        /\ HasPrefix(out.val, PathSeparator)
        /\ ~HasPrefix(out.val, PathSeparator \o PathSeparator)
        /\ <<".", ".">> \notin Range(Split(out.val, "/"))

UrlFns == {"Url", "UrlWithQuery"}

UpperSchemeExample ==
    <<"H","T","T","P",":","/","/","e","x","a","m","p","l","e",".","c","o","m">>

OtherSchemeExample ==
    <<"f","t","p",":","/","/","e","x","a","m","p","l","e",".","c","o","m">>

\* The text after control characters are removed and white space trimmed
\* has a colon but does not begin with lower-case http:// or https://.
HasOtherScheme(cleaned) ==
    /\ ":" \in Range(cleaned)
    /\ ~HasPrefix(cleaned, HttpPrefix)
    /\ ~HasPrefix(cleaned, HttpsPrefix)

\* C29: Url returns the missing-protocol error only for inputs without any
\* scheme; an input with a scheme in upper or mixed case, or with another
\* scheme, gets the invalid-format error whatever requireProtocol is
\* ("HTTP://example.com", "ftp://example.com"), so a successful result has
\* no scheme or begins with lower-case http:// or https://.
C29_OnlyLowerCaseHttpSchemes ==
    fn \in UrlFns =>
        /\ out = Err("url must have protocol")
             => ":" \notin Range(TrimSpace(WriteNonControl(arg)))
        /\ HasOtherScheme(TrimSpace(WriteNonControl(arg)))
             => out = Err("invalid url format")
        /\ out.st = "ok" =>
             \/ ":" \notin Range(out.val)
             \/ HasPrefix(out.val, HttpPrefix)
             \/ HasPrefix(out.val, HttpsPrefix)
        /\ arg \in {UpperSchemeExample, OtherSchemeExample}
             => out = Err("invalid url format")

\* C29 happens: Url, told that no protocol is required, refused
\* "HTTP://example.com" for its format.
C29_Witness ==
    /\ fn = "Url"
    /\ proto = <<FALSE>>
    /\ arg = UpperSchemeExample
    /\ out = Err("invalid url format")

----------------------------------------------------------------------------
(* Properties of package filesystem and of package upload.                  *)

\* A name whose extension filepath.Ext cuts at byte 4 of 256, leaving a base
\* that the truncation shortens to three letters.
CutToReservedExample == <<"C","O","N","x",".">> \o Rep("b", FsMaxNameLen - 4)

\* C22: every name SanitizeFilename returns has, once its extension is cut
\* off, a base that is not a reserved name in any letter case, also when the
\* name was shortened to 255 bytes; "CON" and "CON.txt" are refused with the
\* reserved-name error.
C22_FilenameOutputNotReserved ==
    fn = "SanitizeFilename" =>
        /\ out.st = "ok" =>
             ~IsFsReserved(TrimSuffix(out.val, Ext(out.val)))
        /\ arg \in { <<"C","O","N">>, <<"C","O","N",".","t","x","t">> } =>
             out = Err("filename is a reserved name")

\* C30: a call of CreateFileIfNotExist that has returned, on a path of the
\* temporary directory that is now a file (so the path was absent or a file
\* all through the call, whatever the other caller did meanwhile), has
\* returned nil.
C30_ConcurrentCreateReturnsNil ==
    \A c \in Callers :
        ( /\ creators[c].pc = "done"
          /\ creators[c].path \in TempPaths
          /\ fs[creators[c].path] = "file" )
        => creators[c].result = Nil

\* C23: UploadOneFile on a request of more than one file returns an error,
\* and when that error is "multiple files uploaded, expected one" no file of
\* the request has been stored in uploadDir; when it returns no error, the
\* request had one file and exactly that one file was stored.
C23_UploadOneFileStoresExactlyOne ==
    up.op = "UploadOneFile" =>
        /\ Len(up.req) > 1 => up.err # ""
        /\ up.err = "multiple files uploaded, expected one" =>
             up.written = <<>> /\ disk = {}
        /\ up.err = "" => Len(up.req) = 1 /\ Len(up.written) = 1

\* C24: UploadFiles returns the file-size error only for a file of more
\* than MaxFileSize * 2^20 bytes (the file that ended the loop is the one
\* after the files returned), and every file it accepted has at most that
\* many bytes.
C24_SizeLimitInMegabytes ==
    up.op = "UploadFiles" =>
        /\ up.err = "file size exceeds maximum" =>
             up.req[Len(up.files) + 1].size > up.max * Mega
        /\ \A i \in 1..Len(up.files) : up.req[i].size <= up.max * Mega

====
